---- MODULE Spec2Model ----
(***************************************************************************)
(* State-machine model of the SEO crawler (src/main.py, with the same      *)
(* crawl loop in src/seo_crawler.py): the robots gate, the crawl loop of   *)
(* crawl_site with its frontier, visited set and result rows, and the link *)
(* extraction of one page.                                                 *)
(*                                                                         *)
(* A URL string is modelled by its urlparse() components:                  *)
(*   scheme, netloc, path (the sequence of its "/"-separated segments, a   *)
(*   final "" segment standing for a trailing slash) and frag (the text    *)
(*   after "#").  No modelled URL has surrounding whitespace, so the       *)
(*   .strip() of normalize_url leaves every modelled URL as it is.         *)
(*                                                                         *)
(* crawl_site only ever appends to its results list and never reads a row  *)
(* back.  The variable results keeps the URL, Status and Crawl Status of   *)
(* every row; the variable row holds the whole dict appended in the        *)
(* current iteration, so a statement about the content of every recorded   *)
(* row is a statement about row in every state.  row, anchors, resp_status *)
(* and the outcome of the robots.txt read describe the current iteration   *)
(* only and are cleared when it ends.                                      *)
(***************************************************************************)
EXTENDS Integers, Sequences, FiniteSets, TLC

\* ---------------------------------------------------------------------
\* Bounds of the model
\* ---------------------------------------------------------------------
\* max_pages is drawn from 0..MaxPagesCap
MaxPagesCap == 3
\* a fetched page carries at most MaxLinks anchors with an href
MaxLinks == 2

\* ---------------------------------------------------------------------
\* URLs
\* ---------------------------------------------------------------------
Url(s, n, p, f) == [scheme |-> s, netloc |-> n, path |-> p, frag |-> f]

\* the empty string "" (falsy in Python)
EmptyUrl == Url("", "", <<>>, "")

\* Python's None, where a URL is expected
None == Url("None", "", <<>>, "")

\* the seed URLs a user may type
SeedInputs ==
    { Url("https", "a.com", <<"">>, ""),       \* "https://a.com/"
      Url("https", "a.com", <<"a">>, "x"),     \* "https://a.com/a#x"
      Url("http", "a.com", <<>>, ""),          \* "http://a.com"
      EmptyUrl }                               \* ""

\* the href attributes a page may carry
Hrefs ==
    { Url("", "", <<"a">>, ""),                      \* "/a"
      Url("", "", <<>>, "x"),                        \* "#x"
      Url("https", "a.com", <<"private", "p">>, ""), \* "https://a.com/private/p"
      Url("https", "b.org", <<"">>, ""),             \* "https://b.org/"
      Url("mailto", "", <<"x@a.com">>, ""),          \* "mailto:x@a.com"
      Url("ftp", "a.com", <<"f">>, "") }             \* "ftp://a.com/f"

\* the contents of robots.txt: the Disallow prefixes for user agent *
\* (each prefix ends with "/")
RobotsFiles == { {}, { <<"private", "">> } }

\* HTTP statuses a page GET may end with (redirects are followed by the
\* session, so the final status is what crawl_site sees)
Statuses == {200, 400}

\* what a page parses to: its title and the strings of the document in
\* document order, each with the tag it sits in and its number of
\* whitespace-separated tokens. The second page is
\* <title>Home</title><script type="application/ld+json">{"@type": "WebSite", "name": "Home"}</script>
\* <style>p { color: red }</style><p>Hello world</p>
Bodies == { [title |-> "", title_len |-> 0, strings |-> <<>>],
            [title |-> "Home", title_len |-> 4,
             strings |-> << [parent |-> "title", tokens |-> 1],
                            [parent |-> "script", tokens |-> 4],
                            [parent |-> "style", tokens |-> 5],
                            [parent |-> "p", tokens |-> 2] >>] }

SeqsUpTo(S, n) == UNION { [1..k -> S] : k \in 0..n }

Range(s) == { s[i] : i \in 1..Len(s) }

\* ---------------------------------------------------------------------
\* Helper utilities
\* ---------------------------------------------------------------------
RECURSIVE RStripSlashPath(_)
RStripSlashPath(p) ==
    IF p # <<>> /\ p[Len(p)] = ""
    THEN RStripSlashPath(SubSeq(p, 1, Len(p) - 1))
    ELSE p

\* seed_url.rstrip('/'): only the end of the string is stripped, which is
\* the path when there is no fragment
RStripSlash(u) ==
    IF u.frag = "" THEN [u EXCEPT !.path = RStripSlashPath(u.path)] ELSE u

normalize_url(u) ==
    IF u = EmptyUrl THEN u ELSE [u EXCEPT !.frag = ""]

\* urllib.parse.urljoin for the modelled hrefs: an href with a scheme is
\* absolute, an empty path keeps the base document, a rooted path keeps the
\* base's scheme and netloc
urljoin(base, href) ==
    IF href.scheme # "" THEN href
    ELSE IF href.netloc # "" THEN [href EXCEPT !.scheme = base.scheme]
    ELSE IF href.path = <<>> THEN [base EXCEPT !.frag = href.frag]
    ELSE Url(base.scheme, base.netloc, href.path, href.frag)

\* the origin "scheme://netloc" of a URL
Origin(u) == <<u.scheme, u.netloc>>

\* ---------------------------------------------------------------------
\* Robots gate
\* ---------------------------------------------------------------------
\* what RobotFileParser.read() can end with: it raises (URLError, timeout,
\* undecodable body), or returns after HTTP 401/403, after another 4xx,
\* after another HTTP error (5xx), or after parsing the file
ReadOutcomes == {"raised", "http_401_403", "http_4xx", "http_5xx", "parsed"}

NewRp == [is_none |-> FALSE, disallow_all |-> FALSE, allow_all |-> FALSE,
          last_checked |-> FALSE, rules |-> {}]

RpNone == [NewRp EXCEPT !.is_none = TRUE]

RobotsUrlOf(scheme, netloc) == Url(scheme, netloc, <<"robots.txt">>, "")

load_robots_for_domain(scheme, netloc, outcome, robots_txt) ==
    [rp |-> CASE outcome = "raised" -> RpNone
              [] outcome = "http_401_403" -> [NewRp EXCEPT !.disallow_all = TRUE]
              [] outcome = "http_4xx" -> [NewRp EXCEPT !.allow_all = TRUE]
              [] outcome = "http_5xx" -> NewRp
              [] OTHER -> [NewRp EXCEPT !.last_checked = TRUE, !.rules = robots_txt],
     robots_url |-> RobotsUrlOf(scheme, netloc)]

\* a Disallow prefix ending in "/" is a prefix of the path
PathPrefix(r, p) ==
    /\ Len(p) >= Len(r)
    /\ \A i \in 1..(Len(r) - 1) : p[i] = r[i]

can_fetch(rp, url) ==
    IF rp.disallow_all THEN FALSE
    ELSE IF rp.allow_all THEN TRUE
    ELSE IF ~rp.last_checked THEN FALSE
    ELSE ~ \E r \in rp.rules : PathPrefix(r, IF url.path = <<>> THEN <<"">> ELSE url.path)

\* mutant: the ignore_robots short cut is missing
allowed_by_robots_NoIgnore(url, ignore, outcome, cf_raises, robots_txt) ==
    LET l == load_robots_for_domain(url.scheme, url.netloc, outcome, robots_txt)
    IN  IF l.rp.is_none
        THEN [allowed |-> TRUE, robots_url |-> l.robots_url, reads |-> 1]
        ELSE IF cf_raises
        THEN [allowed |-> TRUE, robots_url |-> l.robots_url, reads |-> 1]
        ELSE [allowed |-> can_fetch(l.rp, url), robots_url |-> l.robots_url, reads |-> 1]

\* reads is the number of robots.txt reads the call performs
allowed_by_robots(url, ignore, outcome, cf_raises, robots_txt) ==
    IF ignore
    THEN [allowed |-> TRUE, robots_url |-> None, reads |-> 0]
    ELSE LET l == load_robots_for_domain(url.scheme, url.netloc, outcome, robots_txt)
         IN  IF l.rp.is_none
             THEN [allowed |-> TRUE, robots_url |-> l.robots_url, reads |-> 1]
             ELSE IF cf_raises
             THEN [allowed |-> TRUE, robots_url |-> l.robots_url, reads |-> 1]
             ELSE [allowed |-> can_fetch(l.rp, url), robots_url |-> l.robots_url,
                   reads |-> 1]

\* ---------------------------------------------------------------------
\* Page extraction
\* ---------------------------------------------------------------------
\* mutant: every link with a network location counts as internal
IsInternal_AnyHost(parsed, seed_domain) == parsed.netloc # ""

IsInternal(parsed, seed_domain) == parsed.netloc = seed_domain

\* the normalized href of every anchor of the page, in document order
RECURSIVE Anchors(_, _)
Anchors(url, hrefs) ==
    IF hrefs = <<>> THEN <<>>
    ELSE LET href == normalize_url(urljoin(url, Head(hrefs)))
         IN  IF href = EmptyUrl THEN Anchors(url, Tail(hrefs))
             ELSE <<href>> \o Anchors(url, Tail(hrefs))

InternalLinks(anchors, seed_domain) ==
    SelectSeq(anchors, LAMBDA h : IsInternal(h, seed_domain))

ExternalLinks(anchors, seed_domain) ==
    SelectSeq(anchors, LAMBDA h : ~IsInternal(h, seed_domain))

\* round(total_links / word_count, 3) if word_count else 0, in thousandths
\* (no modelled quotient lies half way between two thousandths)
LinkToWord(total_links, word_count) ==
    IF word_count = 0 THEN 0
    ELSE (2000 * total_links + word_count) \div (2 * word_count)

\* mutant: 400 itself is not treated as an HTTP error
IsHttpError_Above400(status) == status > 400

IsHttpError(status) == status >= 400

HttpErrorRow(url, status) ==
    [URL |-> url, Status |-> status, CrawlStatus |-> "HTTP Error",
     Title |-> "", TitleLength |-> 0, WordCount |-> 0,
     InternalLinks |-> 0, ExternalLinks |-> 0, LinkToWordRatio |-> 0]

\* mutant: the row of the except branch reads like the row of a parsed page
ErrorRow_AsSuccess(url) ==
    [URL |-> url, Status |-> 200, CrawlStatus |-> "Success",
     Title |-> "", TitleLength |-> 0, WordCount |-> 0,
     InternalLinks |-> 0, ExternalLinks |-> 0, LinkToWordRatio |-> 0]

\* the row of the except branch; its Status is the string "Error", written -1
\* here (a status code is never negative), its Crawl Status "Error: <e>"
ErrorRow(url) ==
    [URL |-> url, Status |-> -1, CrawlStatus |-> "Error",
     Title |-> "", TitleLength |-> 0, WordCount |-> 0,
     InternalLinks |-> 0, ExternalLinks |-> 0, LinkToWordRatio |-> 0]

\* mutant: every string of the document is an ordinary NavigableString
string_container_Plain(parent) == "NavigableString"

\* the class BeautifulSoup gives the string inside a tag (HTML builders:
\* script, style and template get a class of their own)
string_container(parent) ==
    CASE parent = "script" -> "Script"
      [] parent = "style" -> "Stylesheet"
      [] parent = "template" -> "TemplateString"
      [] OTHER -> "NavigableString"

\* soup.get_text(" ", strip=True): the strings of the document that the call
\* joins, those of class NavigableString
get_text(strings) ==
    SelectSeq(strings, LAMBDA str : string_container(str.parent) = "NavigableString")

\* len(text.split()): joining with " " keeps the tokens of each string apart
RECURSIVE CountTokens(_)
CountTokens(strings) ==
    IF strings = <<>> THEN 0
    ELSE Head(strings).tokens + CountTokens(Tail(strings))

page_word_count(body) == CountTokens(get_text(body.strings))

\* mutant: the ratio is computed from the deduplicated link counts
SuccessRow_DedupRatio(url, status, body, internal_links, external_links) ==
    [URL |-> url, Status |-> status, CrawlStatus |-> "Success",
     Title |-> body.title, TitleLength |-> body.title_len,
     WordCount |-> page_word_count(body),
     InternalLinks |-> Cardinality(Range(internal_links)),
     ExternalLinks |-> Cardinality(Range(external_links)),
     LinkToWordRatio |->
         LinkToWord(Cardinality(Range(internal_links))
                        + Cardinality(Range(external_links)), page_word_count(body))]

SuccessRow(url, status, body, internal_links, external_links) ==
    [URL |-> url, Status |-> status, CrawlStatus |-> "Success",
     Title |-> body.title, TitleLength |-> body.title_len,
     WordCount |-> page_word_count(body),
     InternalLinks |-> Cardinality(Range(internal_links)),
     ExternalLinks |-> Cardinality(Range(external_links)),
     LinkToWordRatio |->
         LinkToWord(Len(internal_links) + Len(external_links), page_word_count(body))]

\* no row appended in this iteration (so far)
NoRow ==
    [URL |-> EmptyUrl, Status |-> 0, CrawlStatus |-> "",
     Title |-> "", TitleLength |-> 0, WordCount |-> 0,
     InternalLinks |-> 0, ExternalLinks |-> 0, LinkToWordRatio |-> 0]

\* what results keeps of a row
RowKey(r) == [URL |-> r.URL, Status |-> r.Status, CrawlStatus |-> r.CrawlStatus]

\* mutant: the except branch records no row
RecordError_NoRow(results, r) == results

\* results.append(row)
Record(results, r) == Append(results, RowKey(r))

\* results.append(row) of the except branch
RecordError(results, r) == Record(results, r)

\* ---------------------------------------------------------------------
\* Crawl loop
\* ---------------------------------------------------------------------
\* mutant: the loop runs until the frontier is empty, whatever the cap
LoopCond_IgnoresCap(to_visit, visited, max_pages) == to_visit # <<>>

\* mutant: off by one in the page cap
LoopCond_OffByOne(to_visit, visited, max_pages) ==
    to_visit # <<>> /\ Cardinality(visited) <= max_pages

LoopCond(to_visit, visited, max_pages) ==
    to_visit # <<>> /\ Cardinality(visited) < max_pages

\* mutant: a popped URL is not checked against the visited set
ShouldSkip_EmptyOnly(url, visited) == url = EmptyUrl

ShouldSkip(url, visited) == url = EmptyUrl \/ url \in visited

\* mutant: the frontier is a stack, the newest URL is taken
Pop_Last(to_visit) ==
    [url |-> to_visit[Len(to_visit)],
     rest |-> SubSeq(to_visit, 1, Len(to_visit) - 1)]

\* url = to_visit.pop(0): the URL taken and what stays in the frontier
Pop(to_visit) == [url |-> Head(to_visit), rest |-> Tail(to_visit)]

\* the links of internal_links that the loop appends to to_visit, in order
RECURSIVE NewLinks(_, _, _)
NewLinks(to_visit, visited, internal_links) ==
    IF internal_links = <<>> THEN <<>>
    ELSE LET link == Head(internal_links)
         IN  IF /\ link \notin visited
                /\ link \notin Range(to_visit)
                /\ link.scheme \in {"http", "https"}
             THEN <<link>> \o NewLinks(Append(to_visit, link), visited, Tail(internal_links))
             ELSE NewLinks(to_visit, visited, Tail(internal_links))

\* mutant: the rows recorded so far are returned with the blocked flag
BlockedReturn_Partial(results, robots_url) ==
    [rows |-> results, blocked |-> TRUE, robots_url |-> robots_url]

BlockedReturn(results, robots_url) ==
    [rows |-> <<>>, blocked |-> TRUE, robots_url |-> robots_url]

NormalReturn(results) ==
    [rows |-> results, blocked |-> FALSE, robots_url |-> None]

NoReturn == [rows |-> <<>>, blocked |-> FALSE, robots_url |-> None]

\* where a redirect of the site may lead
RedirectTargets == { Url("https", "a.com", <<"private", "p">>, "") }

\* r.url of session.get(url): requests follows redirects, so the response
\* comes from url itself or from the target of a redirect
FinalUrls(url) == {url} \cup RedirectTargets

\* min(len(visited)/max_pages, 1.0) as the fraction <<numerator, denominator>>
\* mutant: the page about to be fetched is counted as done
Fraction_CountsCurrent(n_visited, max_pages) ==
    IF n_visited + 1 < max_pages THEN <<n_visited + 1, max_pages>> ELSE <<1, 1>>

Fraction(n_visited, max_pages) ==
    IF n_visited < max_pages THEN <<n_visited, max_pages>> ELSE <<1, 1>>

\* ---------------------------------------------------------------------
\* Keyword research (keyword_research.py)
\* ---------------------------------------------------------------------
\* A keyword of the frequency table and of the clusters is a string. The
\* keyword scored by calculate_keyword_opportunity_score is given as the
\* list of its whitespace separated words. A number with decimals is held
\* as an integer count of its last decimal place (a Percentage in
\* hundredths, a score in tenths), a threshold as <<numerator, denominator>>.
MaxKeywords == 6
MaxTopN == 4
MaxClusterList == 5
MaxWords == 7
MaxFrequency == 15
MaxTotal == 51
MaxRankings == 2

FreqWords == {"seo", "tool", "guide"}
ClusterWords == {"act", "cat", "cats", "dog", "god"}
Thresholds == { <<1, 2>>, <<4, 5>>, <<0, 1>> }
Rankings == 0..MaxRankings \cup {1000000}

Min(a, b) == IF a < b THEN a ELSE b

Max(a, b) == IF a > b THEN a ELSE b

\* round(num / den) for num >= 0, den > 0: the nearest integer, a tie going
\* to the even one (Python rounds the binary value of the float; for the
\* inputs drawn here it agrees with the exact quotient)
RoundHalfEven(num, den) ==
    LET q == num \div den
        r == num % den
    IN  IF 2 * r < den THEN q
        ELSE IF 2 * r > den THEN q + 1
        ELSE IF q % 2 = 0 THEN q ELSE q + 1

Count(keyword, keywords) == Len(SelectSeq(keywords, LAMBDA k : k = keyword))

\* the keys of Counter(keywords): the distinct keywords, in order of first
\* occurrence
RECURSIVE Distinct(_)
Distinct(keywords) ==
    IF keywords = <<>> THEN <<>>
    ELSE <<Head(keywords)>>
             \o Distinct(SelectSeq(Tail(keywords), LAMBDA k : k # Head(keywords)))

\* Counter(keywords).items()
Counter(keywords) ==
    LET d == Distinct(keywords)
    IN  [i \in 1..Len(d) |-> [key |-> d[i], count |-> Count(d[i], keywords)]]

\* mutant: an item goes before the items of equal count
InsertByCount_Unstable(item, items) ==
    LET k == Cardinality({ i \in 1..Len(items) : items[i].count > item.count })
    IN  SubSeq(items, 1, k) \o <<item>> \o SubSeq(items, k + 1, Len(items))

\* item put into a list sorted by descending count, after the items of
\* greater or equal count
InsertByCount(item, items) ==
    LET k == Cardinality({ i \in 1..Len(items) : items[i].count >= item.count })
    IN  SubSeq(items, 1, k) \o <<item>> \o SubSeq(items, k + 1, Len(items))

\* sorted(items, key=count, reverse=True): a stable sort
RECURSIVE SortedByCount(_)
SortedByCount(items) ==
    IF items = <<>> THEN <<>>
    ELSE InsertByCount(items[Len(items)],
                       SortedByCount(SubSeq(items, 1, Len(items) - 1)))

\* Counter.most_common(n), i.e. heapq.nlargest(n, items, key=count)
most_common(counter, n) ==
    IF n <= 0 THEN <<>>
    ELSE SubSeq(SortedByCount(counter), 1, Min(n, Len(counter)))

\* mutant: the percentage is cut after 2 decimals
Percentage_Truncated(count, total) == (10000 * count) \div total

\* round((count / total) * 100, 2), in hundredths
Percentage(count, total) == RoundHalfEven(10000 * count, total)

analyze_keyword_frequency(keywords, top_n) ==
    IF keywords = <<>> THEN <<>>
    ELSE LET mc == most_common(Counter(keywords), top_n)
         IN  [i \in 1..Len(mc) |->
                 [Keyword |-> mc[i].key, Frequency |-> mc[i].count,
                  Percentage |-> Percentage(mc[i].count, Len(keywords))]]

\* set(keyword)
Chars(keyword) ==
    CASE keyword = "act" -> {"a", "c", "t"}
      [] keyword = "cat" -> {"c", "a", "t"}
      [] keyword = "cats" -> {"c", "a", "t", "s"}
      [] keyword = "dog" -> {"d", "o", "g"}
      [] keyword = "god" -> {"g", "o", "d"}
      [] OTHER -> {}

\* the keywords in the order of Python's string comparison
WordOrder == <<"act", "cat", "cats", "dog", "god">>

Rank(keyword) == CHOOSE i \in 1..Len(WordOrder) : WordOrder[i] = keyword

\* mutant: the leaders are taken in the order of the input
sorted_Unsorted(keywords) == keywords

\* sorted(keywords)
RECURSIVE sorted(_)
sorted(keywords) ==
    IF keywords = <<>> THEN <<>>
    ELSE LET rest == sorted(Tail(keywords))
             k == Cardinality({ i \in 1..Len(rest) :
                                   Rank(rest[i]) < Rank(Head(keywords)) })
         IN  SubSeq(rest, 1, k) \o <<Head(keywords)>> \o SubSeq(rest, k + 1, Len(rest))

\* mutant: the similarity must not exceed the threshold
MeetsThreshold_Below(chars_key, chars_other, threshold) ==
    Cardinality(chars_key \cap chars_other) * threshold[2]
        <= threshold[1] * Cardinality(chars_key \cup chars_other)

\* len(chars_key & chars_other) / len(chars_key | chars_other) >= threshold
MeetsThreshold(chars_key, chars_other, threshold) ==
    Cardinality(chars_key \cap chars_other) * threshold[2]
        >= threshold[1] * Cardinality(chars_key \cup chars_other)

\* mutant: a keyword already placed in a cluster can be placed again
Eligible_IgnoresUsed(other, keyword, used) == other # keyword

\* if other not in used and other != keyword
Eligible(other, keyword, used) == other \notin used /\ other # keyword

\* the inner loop: for other in keywords
RECURSIVE Collect(_, _, _, _, _)
Collect(keyword, others, cluster, used, threshold) ==
    IF others = <<>> THEN [cluster |-> cluster, used |-> used]
    ELSE LET other == Head(others)
         IN  IF /\ Eligible(other, keyword, used)
                /\ Chars(keyword) # {}
                /\ Chars(other) # {}
                /\ MeetsThreshold(Chars(keyword), Chars(other), threshold)
             THEN Collect(keyword, Tail(others), Append(cluster, other),
                          used \cup {other}, threshold)
             ELSE Collect(keyword, Tail(others), cluster, used, threshold)

\* the outer loop: for keyword in sorted(keywords); clusters is the dict, as
\* the list of its values in insertion order (the key of a value is its head)
RECURSIVE ClusterLoop(_, _, _, _, _)
ClusterLoop(leaders, keywords, clusters, used, threshold) ==
    IF leaders = <<>> THEN clusters
    ELSE LET keyword == Head(leaders)
         IN  IF keyword \in used
             THEN ClusterLoop(Tail(leaders), keywords, clusters, used, threshold)
             ELSE LET c == Collect(keyword, keywords, <<keyword>>,
                                   used \cup {keyword}, threshold)
                  IN  ClusterLoop(Tail(leaders), keywords,
                                  IF Len(c.cluster) > 1
                                  THEN Append(clusters, c.cluster)
                                  ELSE clusters,
                                  c.used, threshold)

cluster_related_keywords(keywords, similarity_threshold) ==
    IF keywords = <<>> THEN <<>>
    ELSE ClusterLoop(sorted(keywords), keywords, <<>>, {}, similarity_threshold)

\* mutant: the score is only capped from above
Clamp_UpperOnly(num, den) == Min(100 * den, num)

\* max(0, min(100, num / den)), as a numerator over den
Clamp(num, den) == Max(0, Min(100 * den, num))

\* mutant: a score on a threshold gets the lower priority
Priority_Strict(num, den) ==
    IF num > 70 * den THEN "High"
    ELSE IF num > 40 * den THEN "Medium" ELSE "Low"

\* "High" if num / den >= 70 else "Medium" if num / den >= 40 else "Low"
Priority(num, den) ==
    IF num >= 70 * den THEN "High"
    ELSE IF num >= 40 * den THEN "Medium" ELSE "Low"

calculate_keyword_opportunity_score(keyword, frequency, total_keywords, current_rankings) ==
    LET d == IF total_keywords > 0 THEN total_keywords ELSE 1
        \* frequency_score * d
        fs == IF total_keywords > 0
              THEN Min(100 * d, 200 * frequency)
              ELSE 0
        word_count == Len(keyword)
        length_score == Min(100, word_count * 15)
        ranking_penalty == current_rankings * 20
        \* opportunity_score * 10 * d, before and after the clamp
        raw == 4 * fs + 4 * length_score * d - 2 * ranking_penalty * d
        os == Clamp(raw, 10 * d)
    IN  [keyword |-> keyword,
         opportunity_score |-> RoundHalfEven(10 * os, 10 * d),
         frequency_component |-> RoundHalfEven(10 * fs, d),
         length_component |-> 10 * length_score,
         rank_penalty |-> ranking_penalty,
         priority |-> Priority(os, 10 * d)]

\* ---------------------------------------------------------------------
\* Search intent (keyword_research.py, organic_research.py)
\* ---------------------------------------------------------------------
\* A term whose characters are looked at is the sequence of its characters.
\* Each term set is written as the sequence of its members in source order;
\* Python iterates a set of strings in an order that changes from one
\* interpreter run to the next, which InOrder draws from Orders.
\* categorize_keyword_intent: informational_terms
informational_terms ==
    << <<"w", "h", "a", "t">>,
       <<"h", "o", "w">>,
       <<"w", "h", "y">>,
       <<"w", "h", "e", "n">>,
       <<"w", "h", "e", "r", "e">>,
       <<"g", "u", "i", "d", "e">>,
       <<"t", "u", "t", "o", "r", "i", "a", "l">>,
       <<"t", "i", "p", "s">>,
       <<"b", "e", "s", "t">>,
       <<"t", "o", "p">>,
       <<"l", "e", "a", "r", "n">>,
       <<"u", "n", "d", "e", "r", "s", "t", "a", "n", "d">>,
       <<"e", "x", "p", "l", "a", "i", "n">>,
       <<"d", "e", "f", "i", "n", "i", "t", "i", "o", "n">>,
       <<"v", "s">>,
       <<"c", "o", "m", "p", "a", "r", "i", "s", "o", "n">>,
       <<"r", "e", "v", "i", "e", "w">>,
       <<"a", "r", "t", "i", "c", "l", "e">>,
       <<"b", "l", "o", "g">>,
       <<"n", "e", "w", "s">> >>

\* categorize_keyword_intent: transactional_terms
transactional_terms ==
    << <<"b", "u", "y">>,
       <<"p", "r", "i", "c", "e">>,
       <<"c", "o", "u", "p", "o", "n">>,
       <<"d", "i", "s", "c", "o", "u", "n", "t">>,
       <<"o", "r", "d", "e", "r">>,
       <<"s", "h", "o", "p">>,
       <<"s", "a", "l", "e">>,
       <<"d", "e", "a", "l">>,
       <<"o", "f", "f", "e", "r">>,
       <<"p", "u", "r", "c", "h", "a", "s", "e">>,
       <<"c", "h", "e", "c", "k", "o", "u", "t">>,
       <<"c", "a", "r", "t">>,
       <<"c", "o", "s", "t">>,
       <<"f", "e", "e">> >>

\* categorize_keyword_intent: navigational_terms
navigational_terms ==
    << <<"l", "o", "g", "i", "n">>,
       <<"s", "i", "g", "n", "i", "n">>,
       <<"s", "i", "g", "n", " ", "u", "p">>,
       <<"r", "e", "g", "i", "s", "t", "e", "r">>,
       <<"f", "a", "c", "e", "b", "o", "o", "k">>,
       <<"t", "w", "i", "t", "t", "e", "r">>,
       <<"i", "n", "s", "t", "a", "g", "r", "a", "m">>,
       <<"y", "o", "u", "t", "u", "b", "e">>,
       <<"a", "p", "p">>,
       <<"d", "o", "w", "n", "l", "o", "a", "d">>,
       <<"o", "f", "f", "i", "c", "i", "a", "l">> >>

\* guess_search_intent_for_term: transactional_keywords
transactional_keywords ==
    << <<"b", "u", "y">>,
       <<"p", "r", "i", "c", "e">>,
       <<"c", "o", "u", "p", "o", "n">>,
       <<"d", "i", "s", "c", "o", "u", "n", "t">>,
       <<"o", "r", "d", "e", "r">>,
       <<"s", "h", "o", "p">>,
       <<"c", "o", "m", "p", "a", "r", "e">>,
       <<"s", "a", "l", "e">> >>

\* guess_search_intent_for_term: navigational_keywords
navigational_keywords ==
    << <<"l", "o", "g", "i", "n">>,
       <<"s", "i", "g", "n", "i", "n">>,
       <<"s", "i", "g", "n", "u", "p">>,
       <<"f", "a", "c", "e", "b", "o", "o", "k">>,
       <<"t", "w", "i", "t", "t", "e", "r">>,
       <<"i", "n", "s", "t", "a", "g", "r", "a", "m">>,
       <<"y", "o", "u", "t", "u", "b", "e">> >>

\* guess_search_intent_for_term: info_triggers
info_triggers ==
    << <<"h", "o", "w">>,
       <<"w", "h", "a", "t">>,
       <<"w", "h", "y">>,
       <<"g", "u", "i", "d", "e">>,
       <<"t", "u", "t", "o", "r", "i", "a", "l">>,
       <<"b", "e", "s", "t">>,
       <<"t", "i", "p", "s">>,
       <<"h", "o", "w", " ", "t", "o">> >>

\* the terms classified: "how to buy", "Buy", "LOGIN", "best price login", "facebook", "cat", "what?", "is it?",
\* "sign up", "signup", "compare", "shop app", "show", "official site", ""
IntentTerms ==
    { <<"h", "o", "w", " ", "t", "o", " ", "b", "u", "y">>,
      <<"B", "u", "y">>,
      <<"L", "O", "G", "I", "N">>,
      <<"b", "e", "s", "t", " ", "p", "r", "i", "c", "e", " ", "l", "o", "g", "i", "n">>,
      <<"f", "a", "c", "e", "b", "o", "o", "k">>,
      <<"c", "a", "t">>,
      <<"w", "h", "a", "t", "?">>,
      <<"i", "s", " ", "i", "t", "?">>,
      <<"s", "i", "g", "n", " ", "u", "p">>,
      <<"s", "i", "g", "n", "u", "p">>,
      <<"c", "o", "m", "p", "a", "r", "e">>,
      <<"s", "h", "o", "p", " ", "a", "p", "p">>,
      <<"s", "h", "o", "w">>,
      <<"o", "f", "f", "i", "c", "i", "a", "l", " ", "s", "i", "t", "e">>,
      <<>> }

Orders == {"written", "reversed"}

Reverse(s) == [i \in 1..Len(s) |-> s[Len(s) + 1 - i]]

\* the members of a set in the order the for loop or any() meets them
InOrder(terms, order) == IF order = "written" THEN terms ELSE Reverse(terms)

\* str.lower() of one character
LowerChar(c) ==
    CASE c = "A" -> "a"
      [] c = "B" -> "b"
      [] c = "C" -> "c"
      [] c = "D" -> "d"
      [] c = "E" -> "e"
      [] c = "F" -> "f"
      [] c = "G" -> "g"
      [] c = "H" -> "h"
      [] c = "I" -> "i"
      [] c = "J" -> "j"
      [] c = "K" -> "k"
      [] c = "L" -> "l"
      [] c = "M" -> "m"
      [] c = "N" -> "n"
      [] c = "O" -> "o"
      [] c = "P" -> "p"
      [] c = "Q" -> "q"
      [] c = "R" -> "r"
      [] c = "S" -> "s"
      [] c = "T" -> "t"
      [] c = "U" -> "u"
      [] c = "V" -> "v"
      [] c = "W" -> "w"
      [] c = "X" -> "x"
      [] c = "Y" -> "y"
      [] c = "Z" -> "z"
      [] OTHER -> c

\* s.lower()
lower(s) == [i \in 1..Len(s) |-> LowerChar(s[i])]

\* term in s: term is a substring of s
Contains(term, s) ==
    \E i \in 0..(Len(s) - Len(term)) : SubSeq(s, i + 1, i + Len(term)) = term

\* mutant: the loop gives up after the first term it meets
Scan_FirstOnly(terms, s) == terms # <<>> /\ Contains(Head(terms), s)

\* for term in terms: if term in s: return ... (also any(k in s for k in terms)):
\* whether the loop finds a term
RECURSIVE Scan(_, _)
Scan(terms, s) ==
    IF terms = <<>> THEN FALSE
    ELSE IF Contains(Head(terms), s) THEN TRUE
    ELSE Scan(Tail(terms), s)

\* mutant: the transactional terms are looked at first
categorize_keyword_intent_TransactionalFirst(keyword, order) ==
    LET keyword_lower == lower(keyword)
    IN  IF Scan(InOrder(transactional_terms, order), keyword_lower) THEN "Transactional"
        ELSE IF Scan(InOrder(informational_terms, order), keyword_lower) THEN "Informational"
        ELSE IF Scan(InOrder(navigational_terms, order), keyword_lower) THEN "Navigational"
        ELSE "Mixed"

categorize_keyword_intent(keyword, order) ==
    LET keyword_lower == lower(keyword)
    IN  IF Scan(InOrder(informational_terms, order), keyword_lower) THEN "Informational"
        ELSE IF Scan(InOrder(transactional_terms, order), keyword_lower) THEN "Transactional"
        ELSE IF Scan(InOrder(navigational_terms, order), keyword_lower) THEN "Navigational"
        ELSE "Mixed"

\* t.endswith("?")
EndsWithQuestionMark(t) == t # <<>> /\ t[Len(t)] = "?"

guess_search_intent_for_term(term, order) ==
    LET t == lower(term)
    IN  IF Scan(InOrder(transactional_keywords, order), t) THEN "transactional"
        ELSE IF Scan(InOrder(navigational_keywords, order), t) THEN "navigational"
        ELSE IF \/ Scan(InOrder(info_triggers, order), t)
                \/ EndsWithQuestionMark(t)
                \/ Contains(<<"?">>, t)
             THEN "informational"
        ELSE "unknown"

\* ---------------------------------------------------------------------
\* Organic research (organic_research.py)
\* ---------------------------------------------------------------------
MaxDocs == 3
MaxLabel == 3
MaxTopNPerDoc == 2

\* The rows the vectorizer can give a document: its non-zero (term, score)
\* pairs in column order, scores in thousandths. A document without a term
\* that survives tokenizing has the empty row (row.nnz == 0).
TfidfRows ==
    { << [term |-> <<"b", "u", "y">>, score |-> 300],
         [term |-> <<"h", "o", "w">>, score |-> 500] >>,
      << [term |-> <<"l", "o", "g", "i", "n">>, score |-> 400] >>,
      << >> }

\* the index of a DataFrame: one label per row, labels distinct
Indexes(n) ==
    { idx \in [1..n -> 0..MaxLabel] :
          \A i, j \in 1..n : idx[i] = idx[j] => i = j }

\* sorted(pairs, key=lambda x: -x[1]): a stable sort, larger scores first
RECURSIVE InsertByScore(_, _)
InsertByScore(pair, sorted_pairs) ==
    IF sorted_pairs = <<>> THEN <<pair>>
    ELSE IF pair.score >= Head(sorted_pairs).score
         THEN <<pair>> \o sorted_pairs
    ELSE <<Head(sorted_pairs)>> \o InsertByScore(pair, Tail(sorted_pairs))

RECURSIVE SortedByScore(_)
SortedByScore(pairs) ==
    IF pairs = <<>> THEN <<>>
    ELSE InsertByScore(Head(pairs), SortedByScore(Tail(pairs)))

\* s[:n] for n >= 0
Take(s, n) == SubSeq(s, 1, Min(n, Len(s)))

\* compute_tfidf_keywords after the vectorizer: X is the matrix, one row per
\* document; the dict it returns has the keys range(X.shape[0])
compute_tfidf_keywords(X, top_n) ==
    [i \in 0..(Len(X) - 1) |-> Take(SortedByScore(X[i + 1]), top_n)]

\* tfidf_results.get(i, []) with i the label corpus_df.iterrows() yields
TfidfGet(tfidf_results, i) ==
    IF i \in DOMAIN tfidf_results THEN tfidf_results[i] ELSE <<>>

\* ", ".join(terms_only)
RECURSIVE Join(_)
Join(terms_only) ==
    IF terms_only = <<>> THEN <<>>
    ELSE IF Len(terms_only) = 1 THEN Head(terms_only)
    ELSE Head(terms_only) \o <<",", " ">> \o Join(Tail(terms_only))

\* intent_counts[intent] after the loop over terms_only
IntentCount(intent, terms_only, order) ==
    Cardinality({ k \in 1..Len(terms_only) :
                     guess_search_intent_for_term(terms_only[k], order) = intent })

\* max(intent_counts.items(), key=lambda x: x[1])[0]: of the intents with the
\* largest count the one inserted first, i.e. the one met first in terms_only
TopIntent(terms_only, order) ==
    IF terms_only = <<>> THEN "unknown"
    ELSE LET intent_of(k) == guess_search_intent_for_term(terms_only[k], order)
             best == CHOOSE k \in 1..Len(terms_only) :
                        /\ \A j \in 1..Len(terms_only) :
                              IntentCount(intent_of(j), terms_only, order)
                                 <= IntentCount(intent_of(k), terms_only, order)
                        /\ \A j \in 1..(k - 1) :
                              IntentCount(intent_of(j), terms_only, order)
                                 < IntentCount(intent_of(k), terms_only, order)
         IN  intent_of(best)

\* what one iteration of the loop over corpus_df.iterrows() appends, as the
\* row of the returned frame
OrganicRow(label, terms, top_n_per_doc, order) ==
    LET terms_only == [k \in 1..Len(terms) |-> terms[k].term]
    IN  [index |-> label,
         keywords |-> terms,
         top_terms |-> Join(Take(terms_only, top_n_per_doc)),
         top_term_intent |-> TopIntent(terms_only, order)]

\* analyze_organic_candidates on a frame with the given index whose documents
\* the vectorizer turns into X. fit_transform raises ValueError (empty
\* vocabulary) when no document has a term.
analyze_organic_candidates(index, X, top_n_per_doc, order) ==
    IF \A p \in 1..Len(X) : X[p] = <<>>
    THEN [raised |-> TRUE, rows |-> <<>>]
    ELSE LET tfidf_results == compute_tfidf_keywords(X, top_n_per_doc)
         IN  [raised |-> FALSE,
              rows |-> [p \in 1..Len(X) |->
                          OrganicRow(index[p],
                                     TfidfGet(tfidf_results, index[p]),
                                     top_n_per_doc, order)]]

\* ---------------------------------------------------------------------
\* Keyword report (keyword_research.py)
\* ---------------------------------------------------------------------
\* extract_keywords_from_text: stopwords
stopwords ==
    { <<"a">>, <<"a", "n">>, <<"a", "n", "d">>, <<"a", "r", "e">>,
      <<"a", "s">>, <<"a", "t">>, <<"b", "e">>, <<"b", "y">>,
      <<"f", "o", "r">>, <<"f", "r", "o", "m">>, <<"h", "a", "s">>,
      <<"h", "e">>, <<"i", "n">>, <<"i", "s">>, <<"i", "t">>,
      <<"i", "t", "s">>, <<"o", "f">>, <<"o", "n">>, <<"o", "r">>,
      <<"t", "h", "a", "t">>, <<"t", "h", "e">>, <<"t", "o">>,
      <<"w", "a", "s">>, <<"w", "i", "l", "l">>, <<"w", "i", "t", "h">>,
      <<"t", "h", "e">>, <<"t", "h", "i", "s">>, <<"b", "u", "t">>,
      <<"n", "o", "t">>, <<"y", "o", "u">>, <<"a", "l", "l">>,
      <<"c", "a", "n">>, <<"h", "e", "r">>, <<"w", "h", "a", "t">>,
      <<"w", "h", "i", "c", "h">>, <<"w", "h", "o">>, <<"a", "m">>,
      <<"h", "a", "v", "e">>, <<"i", "f">>, <<"m", "e">>, <<"m", "y">>,
      <<"t", "h", "e", "s", "e">>, <<"t", "h", "o", "s", "e">>,
      <<"y", "o", "u", "r">>, <<"a", "b", "o", "u", "t">>,
      <<"c", "o", "u", "l", "d">>, <<"d", "o", "e", "s">> }

\* the texts keywords are extracted from:
\*   "guide guide"
\*   "SEO tool, seo-tool seo"
\*   "the best of a guide"
\*   ""
\*   "is it a"
\*   "how to rank on google"
\*   "x seo_tool 42"
ReportTexts ==
    { <<"g", "u", "i", "d", "e", " ", "g", "u", "i", "d", "e">>,
      <<"S", "E", "O", " ", "t", "o", "o", "l", ",", " ", "s", "e", "o", "-", "t", "o", "o", "l", " ", "s", "e", "o">>,
      <<"t", "h", "e", " ", "b", "e", "s", "t", " ", "o", "f", " ", "a", " ", "g", "u", "i", "d", "e">>,
      <<>>,
      <<"i", "s", " ", "i", "t", " ", "a">>,
      <<"h", "o", "w", " ", "t", "o", " ", "r", "a", "n", "k", " ", "o", "n", " ", "g", "o", "o", "g", "l", "e">>,
      <<"x", " ", "s", "e", "o", "_", "t", "o", "o", "l", " ", "4", "2">> }

\* the characters \w matches in a lowered text
WordChars ==
    { "a", "b", "c", "d", "e", "f", "g", "h", "i", "j", "k", "l", "m", "n",
      "o", "p", "q", "r", "s", "t", "u", "v", "w", "x", "y", "z", "0", "1",
      "2", "3", "4", "5", "6", "7", "8", "9", "_" }

\* re.findall(r'\b\w+\b', text): the maximal runs of word characters, in
\* order; word is the run being read
RECURSIVE findall(_, _)
findall(text, word) ==
    IF text = <<>> THEN (IF word = <<>> THEN <<>> ELSE <<word>>)
    ELSE IF Head(text) \in WordChars
         THEN findall(Tail(text), Append(word, Head(text)))
    ELSE (IF word = <<>> THEN <<>> ELSE <<word>>) \o findall(Tail(text), <<>>)

extract_keywords_from_text(text, min_length) ==
    LET words == findall(lower(text), <<>>)
    IN  SelectSeq(words, LAMBDA w : w \notin stopwords /\ Len(w) >= min_length)

\* mutant: every character of the keyword counts as a word
split_PerChar(keyword) == [i \in 1..Len(keyword) |-> <<keyword[i]>>]

\* keyword.split(): the maximal runs of characters other than whitespace
RECURSIVE SplitFrom(_, _)
SplitFrom(keyword, word) ==
    IF keyword = <<>> THEN (IF word = <<>> THEN <<>> ELSE <<word>>)
    ELSE IF Head(keyword) # " "
         THEN SplitFrom(Tail(keyword), Append(word, Head(keyword)))
    ELSE (IF word = <<>> THEN <<>> ELSE <<word>>) \o SplitFrom(Tail(keyword), <<>>)

split(keyword) == SplitFrom(keyword, <<>>)

\* sort_values("opportunity_score", ascending=False): for frames this short
\* rows with equal scores keep their order
RECURSIVE InsertByOpportunity(_, _)
InsertByOpportunity(score, sorted_scores) ==
    IF sorted_scores = <<>> THEN <<score>>
    ELSE IF score.opportunity_score >= Head(sorted_scores).opportunity_score
         THEN <<score>> \o sorted_scores
    ELSE <<Head(sorted_scores)>> \o InsertByOpportunity(score, Tail(sorted_scores))

RECURSIVE SortedByOpportunity(_)
SortedByOpportunity(opportunities) ==
    IF opportunities = <<>> THEN <<>>
    ELSE InsertByOpportunity(Head(opportunities),
                             SortedByOpportunity(Tail(opportunities)))

\* generate_keyword_research_report: the counts, the frequency table and the
\* opportunity table of the report. Without keywords the error report is
\* returned; with an empty frequency table (top_n <= 0) sort_values raises
\* KeyError, there being no column opportunity_score.
generate_keyword_research_report(keywords, top_n) ==
    IF keywords = <<>>
    THEN [error |-> TRUE, raised |-> FALSE, total_keywords |-> 0,
          unique_keywords |-> 0, frequency_analysis |-> <<>>,
          opportunity_analysis |-> <<>>]
    ELSE LET total_keywords == Len(keywords)
             frequency_df == analyze_keyword_frequency(keywords, top_n)
             opportunities ==
                 [i \in 1..Len(frequency_df) |->
                     calculate_keyword_opportunity_score(
                         split(frequency_df[i].Keyword),
                         frequency_df[i].Frequency, total_keywords, 0)]
         IN  [error |-> FALSE,
              raised |-> (opportunities = <<>>),
              total_keywords |-> total_keywords,
              unique_keywords |-> Cardinality(Range(keywords)),
              frequency_analysis |-> frequency_df,
              opportunity_analysis |-> SortedByOpportunity(opportunities)]

VARIABLES
    seed_url,        \* seed_url after rstrip('/')
    seed_domain,     \* parsed_seed.netloc
    max_pages,
    ignore_robots,
    has_cb,          \* a show_progress_cb was passed
    robots_txt,      \* the site's robots.txt
    visited,
    to_visit,
    results,
    url,             \* the URL of the current iteration
    allowed,         \* what the last allowed_by_robots call returned
    robots_url,
    read_outcome,    \* how rp.read() ended in the call that just returned
    cf_raised,       \* rp.can_fetch() raised in the call that just returned
    resp_status,     \* r.status_code of this iteration's response (0: none)
    resp_url,        \* r.url: where this iteration's response came from
    raised,          \* the try block of this iteration raised an exception
    anchors,         \* the normalized hrefs of the page parsed in this iteration
    soup,            \* the strings of the page parsed in this iteration
    row,             \* the dict appended to results in this iteration
    robots_reads,    \* number of robots.txt reads so far
    checked,         \* URLs whose robots.txt was read
    fetched,         \* the targets of session.get, in order
    enqueued,        \* the URLs appended to to_visit by the loop, in order
    progress,        \* the fractions passed to show_progress_cb
    sleeps,          \* number of time.sleep(delay) calls
    ret,             \* the value crawl_site returns
    pc,
    fn,              \* the keyword research function that was called
    args,            \* its arguments
    result           \* what it returned

params == <<seed_url, seed_domain, max_pages, ignore_robots, has_cb, robots_txt>>
robots == <<allowed, robots_url, read_outcome, cf_raised, robots_reads, checked>>
page == <<resp_status, resp_url, raised, anchors, soup, row>>
call == <<fn, args, result>>
crawl == <<params, robots, page, visited, to_visit, results, url, fetched,
           enqueued, progress, sleeps, ret, pc>>
vars == <<crawl, call>>

\* no keyword research call is made in a crawl
NoCall ==
    /\ fn = "none"
    /\ args = <<>>
    /\ result = <<>>

Init ==
    /\ \E s \in SeedInputs :
          /\ seed_url = RStripSlash(s)
          /\ seed_domain = RStripSlash(s).netloc
    /\ max_pages \in 0..MaxPagesCap
    /\ ignore_robots \in BOOLEAN
    /\ has_cb \in BOOLEAN
    /\ robots_txt \in RobotsFiles
    /\ visited = {}
    /\ to_visit = <<seed_url>>
    /\ results = <<>>
    /\ url = EmptyUrl
    /\ allowed = TRUE
    /\ robots_url = None
    /\ read_outcome = "none"
    /\ cf_raised = FALSE
    /\ resp_status = 0
    /\ resp_url = EmptyUrl
    /\ raised = FALSE
    /\ anchors = <<>>
    /\ soup = <<>>
    /\ row = NoRow
    /\ robots_reads = 0
    /\ checked = {}
    /\ fetched = <<>>
    /\ enqueued = <<>>
    /\ progress = <<>>
    /\ sleeps = 0
    /\ ret = NoReturn
    /\ pc = "loop"
    /\ NoCall

\* while to_visit and len(visited) < max_pages: fails, crawl_site returns
LoopExit ==
    /\ pc = "loop"
    /\ ~LoopCond(to_visit, visited, max_pages)
    /\ ret' = NormalReturn(results)
    /\ pc' = "done"
    /\ UNCHANGED <<call, params, robots, page, visited, to_visit, results, url,
                   fetched, enqueued, progress, sleeps>>

\* pop(0), normalize, and continue on an empty or visited URL
PopSkip ==
    /\ pc = "loop"
    /\ LoopCond(to_visit, visited, max_pages)
    /\ ShouldSkip(normalize_url(Pop(to_visit).url), visited)
    /\ url' = normalize_url(Pop(to_visit).url)
    /\ to_visit' = Pop(to_visit).rest
    /\ UNCHANGED <<call, params, robots, page, visited, results, fetched, enqueued,
                   progress, sleeps, ret, pc>>

\* pop(0), normalize, and go on to the robots check
PopUrl ==
    /\ pc = "loop"
    /\ LoopCond(to_visit, visited, max_pages)
    /\ ~ShouldSkip(normalize_url(Pop(to_visit).url), visited)
    /\ url' = normalize_url(Pop(to_visit).url)
    /\ to_visit' = Pop(to_visit).rest
    /\ pc' = "robots"
    /\ UNCHANGED <<call, params, robots, page, visited, results, fetched, enqueued,
                   progress, sleeps, ret>>

RobotsEffect(r, outcome, cfr) ==
    /\ allowed' = r.allowed
    /\ robots_url' = r.robots_url
    /\ robots_reads' = robots_reads + r.reads
    /\ read_outcome' = IF r.reads = 0 THEN "none" ELSE outcome
    /\ cf_raised' = (r.reads > 0 /\ outcome # "raised" /\ cfr)
    /\ checked' = IF r.reads = 0 THEN checked ELSE checked \cup {url}

\* allowed_by_robots answers allowed
RobotsAllowed ==
    /\ pc = "robots"
    /\ \E outcome \in ReadOutcomes, cfr \in BOOLEAN :
          LET r == allowed_by_robots(url, ignore_robots, outcome, cfr, robots_txt)
          IN  /\ r.allowed
              /\ RobotsEffect(r, outcome, cfr)
    /\ pc' = "progress"
    /\ UNCHANGED <<call, params, page, visited, to_visit, results, url, fetched,
                   enqueued, progress, sleeps, ret>>

\* allowed_by_robots answers not allowed: crawl_site returns
RobotsBlocked ==
    /\ pc = "robots"
    /\ \E outcome \in ReadOutcomes, cfr \in BOOLEAN :
          LET r == allowed_by_robots(url, ignore_robots, outcome, cfr, robots_txt)
          IN  /\ ~r.allowed
              /\ RobotsEffect(r, outcome, cfr)
              /\ ret' = BlockedReturn(results, r.robots_url)
    /\ pc' = "done"
    /\ UNCHANGED <<call, params, page, visited, to_visit, results, url, fetched,
                   enqueued, progress, sleeps>>

\* if show_progress_cb: show_progress_cb(min(len(visited)/max_pages, 1.0), ...)
ReportProgress ==
    /\ pc = "progress"
    /\ progress' = IF has_cb
                   THEN Append(progress, Fraction(Cardinality(visited), max_pages))
                   ELSE progress
    /\ read_outcome' = "none"
    /\ cf_raised' = FALSE
    /\ pc' = "fetch"
    /\ UNCHANGED <<call, params, allowed, robots_url, robots_reads, checked, page,
                   visited, to_visit, results, url, fetched, enqueued, sleeps, ret>>

\* session.get raises: the except branch
FetchRaises ==
    /\ pc = "fetch"
    /\ fetched' = Append(fetched, url)
    /\ raised' = TRUE
    /\ row' = ErrorRow(url)
    /\ results' = RecordError(results, ErrorRow(url))
    /\ visited' = visited \cup {url}
    /\ pc' = "sleep"
    /\ UNCHANGED <<call, params, robots, resp_status, resp_url, anchors, soup,
                   to_visit, url, enqueued, progress, sleeps, ret>>

\* the response has status >= 400
FetchHttpError ==
    /\ pc = "fetch"
    /\ \E status \in Statuses, final \in FinalUrls(url) :
          /\ IsHttpError(status)
          /\ resp_status' = status
          /\ resp_url' = final
          /\ row' = HttpErrorRow(url, status)
          /\ results' = Record(results, HttpErrorRow(url, status))
    /\ fetched' = Append(fetched, url)
    /\ visited' = visited \cup {url}
    /\ pc' = "sleep"
    /\ UNCHANGED <<call, params, robots, raised, anchors, soup, to_visit, url,
                   enqueued, progress, sleeps, ret>>

\* the response is parsed, and the extraction raises before the row is
\* appended (e.g. detect_content_type on an og:type meta without content)
ExtractRaises ==
    /\ pc = "fetch"
    /\ \E status \in Statuses, final \in FinalUrls(url) :
          /\ ~IsHttpError(status)
          /\ resp_status' = status
          /\ resp_url' = final
    /\ fetched' = Append(fetched, url)
    /\ raised' = TRUE
    /\ row' = ErrorRow(url)
    /\ results' = RecordError(results, ErrorRow(url))
    /\ visited' = visited \cup {url}
    /\ pc' = "sleep"
    /\ UNCHANGED <<call, params, robots, anchors, soup, to_visit, url, enqueued,
                   progress, sleeps, ret>>

\* the response is parsed and recorded, its internal links are enqueued
FetchSuccess ==
    /\ pc = "fetch"
    /\ \E status \in Statuses, final \in FinalUrls(url), body \in Bodies,
          hrefs \in SeqsUpTo(Hrefs, MaxLinks) :
          LET a == Anchors(url, hrefs)
              il == InternalLinks(a, seed_domain)
              el == ExternalLinks(a, seed_domain)
              new == NewLinks(to_visit, visited, il)
          IN  /\ ~IsHttpError(status)
              /\ resp_status' = status
              /\ resp_url' = final
              /\ anchors' = a
              /\ soup' = body.strings
              /\ row' = SuccessRow(url, status, body, il, el)
              /\ results' = Record(results, SuccessRow(url, status, body, il, el))
              /\ to_visit' = to_visit \o new
              /\ enqueued' = enqueued \o new
    /\ fetched' = Append(fetched, url)
    /\ visited' = visited \cup {url}
    /\ pc' = "sleep"
    /\ UNCHANGED <<call, params, robots, raised, url, progress, sleeps, ret>>

\* mutant: the iteration ends without the politeness sleep
Sleep_Skipped ==
    /\ pc = "sleep"
    /\ sleeps' = sleeps
    /\ resp_status' = 0
    /\ resp_url' = EmptyUrl
    /\ raised' = FALSE
    /\ anchors' = <<>>
    /\ soup' = <<>>
    /\ row' = NoRow
    /\ pc' = "loop"
    /\ UNCHANGED <<call, params, robots, visited, to_visit, results, url, fetched,
                   enqueued, progress, ret>>

\* time.sleep(delay) ends the iteration
Sleep ==
    /\ pc = "sleep"
    /\ sleeps' = sleeps + 1
    /\ resp_status' = 0
    /\ resp_url' = EmptyUrl
    /\ raised' = FALSE
    /\ anchors' = <<>>
    /\ soup' = <<>>
    /\ row' = NoRow
    /\ pc' = "loop"
    /\ UNCHANGED <<call, params, robots, visited, to_visit, results, url, fetched,
                   enqueued, progress, ret>>

Next ==
    \/ LoopExit
    \/ PopSkip
    \/ PopUrl
    \/ RobotsAllowed
    \/ RobotsBlocked
    \/ ReportProgress
    \/ FetchRaises
    \/ FetchHttpError
    \/ ExtractRaises
    \/ FetchSuccess
    \/ Sleep

Spec == Init /\ [][Next]_vars

\* crawl_site is one sequential call: while a statement is left to run, the
\* interpreter runs it (every fetch returns or raises within its timeout)
FairSpec == Spec /\ WF_vars(Next)

\* ---------------------------------------------------------------------
\* Calls of the keyword research functions
\* ---------------------------------------------------------------------
\* no crawl is running
KeywordInit ==
    /\ NoCall
    /\ seed_url = EmptyUrl
    /\ seed_domain = ""
    /\ max_pages = 0
    /\ ignore_robots = FALSE
    /\ has_cb = FALSE
    /\ robots_txt = {}
    /\ visited = {}
    /\ to_visit = <<>>
    /\ results = <<>>
    /\ url = EmptyUrl
    /\ allowed = TRUE
    /\ robots_url = None
    /\ read_outcome = "none"
    /\ cf_raised = FALSE
    /\ resp_status = 0
    /\ resp_url = EmptyUrl
    /\ raised = FALSE
    /\ anchors = <<>>
    /\ soup = <<>>
    /\ row = NoRow
    /\ robots_reads = 0
    /\ checked = {}
    /\ fetched = <<>>
    /\ enqueued = <<>>
    /\ progress = <<>>
    /\ sleeps = 0
    /\ ret = NoReturn
    /\ pc = "idle"

CallAnalyzeFrequency ==
    /\ fn = "none"
    /\ pc = "idle"
    /\ \E keywords \in SeqsUpTo(FreqWords, MaxKeywords), top_n \in 0..MaxTopN :
          /\ args' = [keywords |-> keywords, top_n |-> top_n]
          /\ result' = analyze_keyword_frequency(keywords, top_n)
    /\ fn' = "analyze_keyword_frequency"
    /\ UNCHANGED crawl

CallOpportunityScore ==
    /\ fn = "none"
    /\ pc = "idle"
    /\ \E keyword \in SeqsUpTo({"seo"}, MaxWords), frequency \in 0..MaxFrequency,
          total_keywords \in 0..MaxTotal, current_rankings \in Rankings :
          /\ args' = [keyword |-> keyword, frequency |-> frequency,
                      total_keywords |-> total_keywords,
                      current_rankings |-> current_rankings]
          /\ result' = calculate_keyword_opportunity_score(
                           keyword, frequency, total_keywords, current_rankings)
    /\ fn' = "calculate_keyword_opportunity_score"
    /\ UNCHANGED crawl

CallClusterKeywords ==
    /\ fn = "none"
    /\ pc = "idle"
    /\ \E keywords \in SeqsUpTo(ClusterWords, MaxClusterList),
          similarity_threshold \in Thresholds :
          /\ args' = [keywords |-> keywords,
                      similarity_threshold |-> similarity_threshold]
          /\ result' = cluster_related_keywords(keywords, similarity_threshold)
    /\ fn' = "cluster_related_keywords"
    /\ UNCHANGED crawl

\* two calls of categorize_keyword_intent on the same keyword; the hash order of
\* the term sets may differ from one call to the other
CallCategorizeIntent ==
    /\ fn = "none"
    /\ pc = "idle"
    /\ \E keyword \in IntentTerms, first \in Orders, second \in Orders :
          /\ args' = [keyword |-> keyword, first |-> first, second |-> second]
          /\ result' = << categorize_keyword_intent(keyword, first),
                          categorize_keyword_intent(keyword, second) >>
    /\ fn' = "categorize_keyword_intent"
    /\ UNCHANGED crawl

\* two calls of guess_search_intent_for_term on the same term
CallGuessIntent ==
    /\ fn = "none"
    /\ pc = "idle"
    /\ \E term \in IntentTerms, first \in Orders, second \in Orders :
          /\ args' = [term |-> term, first |-> first, second |-> second]
          /\ result' = << guess_search_intent_for_term(term, first),
                          guess_search_intent_for_term(term, second) >>
    /\ fn' = "guess_search_intent_for_term"
    /\ UNCHANGED crawl

CallAnalyzeOrganic ==
    /\ fn = "none"
    /\ pc = "idle"
    /\ \E X \in SeqsUpTo(TfidfRows, MaxDocs), top_n_per_doc \in 1..MaxTopNPerDoc,
          order \in Orders :
       \E index \in Indexes(Len(X)) :
          /\ args' = [index |-> index, X |-> X, top_n_per_doc |-> top_n_per_doc,
                      order |-> order]
          /\ result' = analyze_organic_candidates(index, X, top_n_per_doc, order)
    /\ fn' = "analyze_organic_candidates"
    /\ UNCHANGED crawl

\* the report over the keywords extracted from a text
CallKeywordReport ==
    /\ fn = "none"
    /\ pc = "idle"
    /\ \E text \in ReportTexts, top_n \in 0..MaxTopN :
          /\ args' = [text |-> text, top_n |-> top_n]
          /\ result' = generate_keyword_research_report(
                           extract_keywords_from_text(text, 2), top_n)
    /\ fn' = "generate_keyword_research_report"
    /\ UNCHANGED crawl

KeywordNext ==
    \/ CallAnalyzeFrequency
    \/ CallOpportunityScore
    \/ CallClusterKeywords
    \/ CallCategorizeIntent
    \/ CallGuessIntent
    \/ CallAnalyzeOrganic
    \/ CallKeywordReport

KeywordSpec == KeywordInit /\ [][KeywordNext]_vars

\* ---------------------------------------------------------------------
\* Properties
\* ---------------------------------------------------------------------
RowUrls(rows) == { rows[i].URL : i \in 1..Len(rows) }

NoDuplicates(s) == \A i, j \in 1..Len(s) : s[i] = s[j] => i = j

Origins(urls) == { Origin(u) : u \in urls }

\* C1: in every state of a crawl the visited set holds at most max_pages
\* URLs, and so does the list of recorded rows.
C1_VisitedWithinCap ==
    /\ Cardinality(visited) <= max_pages
    /\ Len(results) <= max_pages

\* the cap is reached while the frontier still holds URLs
C1_Witness ==
    /\ max_pages = MaxPagesCap
    /\ Cardinality(visited) = max_pages
    /\ to_visit # <<>>

\* C2: no URL is the target of a page GET more than once in one run.
C2_NoUrlFetchedTwice == NoDuplicates(fetched)

\* a page linked back to the seed, the seed was queued again, popped and
\* skipped, and the crawl went on to fetch another page
C2_Witness ==
    /\ pc = "done"
    /\ to_visit = <<>>
    /\ normalize_url(seed_url) \in Range(enqueued)
    /\ Len(fetched) >= 2

\* C3: after each loop iteration no URL is both in to_visit and in visited,
\* and no URL occurs twice in to_visit.
C3_FrontierDisjointFromVisited ==
    pc = "loop" =>
        /\ \A i \in 1..Len(to_visit) : to_visit[i] \notin visited
        /\ NoDuplicates(to_visit)

\* C4: every URL appended to the frontier has the seed's network location
\* and scheme http or https; a link with another network location is counted
\* in External Links and is never enqueued or fetched.
C4_OnlySeedHostEnqueued ==
    /\ \A i \in 1..Len(enqueued) :
          /\ enqueued[i].netloc = seed_domain
          /\ enqueued[i].scheme \in {"http", "https"}
    /\ \A i \in 1..Len(fetched) : fetched[i].netloc = seed_domain
    /\ row.CrawlStatus = "Success" =>
          /\ row.ExternalLinks =
                Cardinality({ a \in Range(anchors) : a.netloc # seed_domain })
          /\ \A a \in Range(anchors) :
                a.netloc # seed_domain =>
                    a \notin Range(enqueued) \cup Range(to_visit) \cup Range(fetched)

\* a parsed page carries a link to another host next to an internal link
\* that was enqueued
C4_Witness ==
    /\ row.CrawlStatus = "Success"
    /\ \E a \in Range(anchors) : a.netloc = "b.org"
    /\ \E a \in Range(anchors) : a \in Range(to_visit) /\ a \in Range(enqueued)
    /\ row.ExternalLinks >= 1

\* C5: when crawl_site returns without being blocked, the table holds exactly
\* one row per visited URL: as many rows as visited URLs, no URL twice.
C5_OneRowPerVisitedUrl ==
    (pc = "done" /\ ~ret.blocked) =>
        /\ Len(ret.rows) = Cardinality(visited)
        /\ RowUrls(ret.rows) = visited
        /\ NoDuplicates([i \in 1..Len(ret.rows) |-> ret.rows[i].URL])

\* a returned table with a Success, an HTTP Error and an Error row
C5_Witness ==
    /\ pc = "done"
    /\ ~ret.blocked
    /\ \A o \in {"Success", "HTTP Error", "Error"} :
          \E i \in 1..Len(ret.rows) : ret.rows[i].CrawlStatus = o

C7_OneRobotsReadPerOrigin ==
    robots_reads <= Cardinality(Origins(checked))

\* C8: with ignore_robots set, allowed_by_robots returns (True, None) without
\* a robots.txt read, so the run reads no robots.txt and is never blocked.
C8_IgnoreRobots ==
    ignore_robots =>
        /\ robots_reads = 0
        /\ checked = {}
        /\ allowed
        /\ robots_url = None
        /\ ~ret.blocked

\* a URL that the site's robots.txt disallows is fetched
C8_Witness ==
    /\ ignore_robots
    /\ \E i \in 1..Len(fetched) :
          ~can_fetch([NewRp EXCEPT !.last_checked = TRUE, !.rules = robots_txt],
                     fetched[i])

\* C9: whenever fetching or parsing robots.txt fails, or the permission check
\* raises, allowed_by_robots returns allowed=True with the derived robots.txt
\* URL, and the crawl is not blocked.
C9_RobotsFailOpen ==
    (read_outcome \in {"raised", "http_401_403", "http_4xx", "http_5xx"} \/ cf_raised) =>
        /\ allowed
        /\ robots_url = RobotsUrlOf(url.scheme, url.netloc)
        /\ ~ret.blocked

\* C10: a response with status >= 400 gives one row 'HTTP Error' with empty
\* or zero content fields; the body is not parsed, no link is appended to the
\* frontier, the URL is marked visited and the loop goes on.
C10_HttpErrorRow ==
    [][ (pc = "fetch" /\ resp_status' >= 400) =>
            /\ row' = [URL |-> url, Status |-> resp_status',
                       CrawlStatus |-> "HTTP Error",
                       Title |-> "", TitleLength |-> 0, WordCount |-> 0,
                       InternalLinks |-> 0, ExternalLinks |-> 0,
                       LinkToWordRatio |-> 0]
            /\ results' = Append(results, RowKey(row'))
            /\ anchors' = <<>>
            /\ to_visit' = to_visit
            /\ enqueued' = enqueued
            /\ visited' = visited \cup {url}
            /\ pc' = "sleep" ]_vars

\* after an HTTP Error row the crawl has gone on to fetch the next URL
C10_Witness ==
    \E i \in 1..Len(results) :
        /\ results[i].CrawlStatus = "HTTP Error"
        /\ i < Len(fetched)

\* C11: an exception raised while a page is fetched or extracted does not
\* abort the crawl: the iteration appends exactly one row for the URL, with
\* Status 'Error' and empty or zero content fields, marks the URL visited,
\* leaves the frontier as it was, and goes on to the sleep that ends the
\* iteration, from where the loop takes the next frontier URL.
C11_ExceptionRow ==
    /\ [][ (pc = "fetch" /\ raised') =>
              /\ row' = [URL |-> url, Status |-> -1, CrawlStatus |-> "Error",
                         Title |-> "", TitleLength |-> 0, WordCount |-> 0,
                         InternalLinks |-> 0, ExternalLinks |-> 0,
                         LinkToWordRatio |-> 0]
              /\ results' = Append(results, RowKey(row'))
              /\ to_visit' = to_visit
              /\ enqueued' = enqueued
              /\ visited' = visited \cup {url}
              /\ pc' = "sleep" ]_vars
    /\ [](raised => (pc = "sleep" /\ ret = NoReturn /\ ENABLED Sleep))

\* a page other than the last raised, and the crawl went on to pop and fetch
\* the URL that was next on the frontier
C11_Witness ==
    \E i \in 1..Len(results) :
        /\ results[i].CrawlStatus = "Error"
        /\ i < Len(fetched)
        /\ i < Len(results)
        /\ results[i + 1].URL = fetched[i + 1]

SiteAllows(u) ==
    can_fetch([NewRp EXCEPT !.last_checked = TRUE, !.rules = robots_txt], u)

\* C13: with ignore_robots false, when the seed URL is allowed by robots.txt
\* but its GET is redirected to a path under a disallowed prefix, the crawl
\* returns an empty table with blocked=True.
C13_RedirectBlocked ==
    ( /\ pc = "sleep"
      /\ ~ignore_robots
      /\ fetched = <<url>>
      /\ SiteAllows(url)
      /\ resp_url # EmptyUrl
      /\ ~SiteAllows(resp_url) )
        ~> (pc = "done" /\ ret.blocked /\ ret.rows = <<>>)

\* C14: in every recorded row the Link-to-Word Ratio is 0 when Word Count is
\* 0, and otherwise the number of link occurrences of the page (internal plus
\* external, before deduplication) divided by Word Count, rounded to 3
\* decimals (held in thousandths); Internal Links and External Links hold the
\* numbers of distinct internal and external links; the row of a page of 100
\* words with 3 distinct internal and 2 distinct external links has 3, 2 and
\* 0.05.
C14_LinkToWordRatio ==
    row # NoRow =>
        LET total == Len(anchors)
            wc == row.WordCount
            diff == 1000 * total - row.LinkToWordRatio * wc
        IN  /\ wc = 0 => row.LinkToWordRatio = 0
            /\ wc > 0 => (2 * diff <= wc /\ -2 * diff <= wc)
            /\ row.InternalLinks =
                  Cardinality({ a \in Range(anchors) : a.netloc = seed_domain })
            /\ row.ExternalLinks =
                  Cardinality({ a \in Range(anchors) : a.netloc # seed_domain })
            /\ row.CrawlStatus # "Success" => (total = 0 /\ wc = 0)
            /\ LET page100 ==
                      SuccessRow(url, 200,
                                 [title |-> "Home", title_len |-> 4,
                                  strings |-> << [parent |-> "p", tokens |-> 100] >>],
                                 << Url("https", "a.com", <<"a">>, ""),
                                    Url("https", "a.com", <<"b">>, ""),
                                    Url("https", "a.com", <<"c">>, "") >>,
                                 << Url("https", "b.org", <<"">>, ""),
                                    Url("https", "c.org", <<"">>, "") >>)
               IN  /\ page100.InternalLinks = 3
                   /\ page100.ExternalLinks = 2
                   /\ page100.LinkToWordRatio = 50

\* a page of 3 words carries the same internal link twice: one distinct
\* internal link, two occurrences, ratio 0.667
C14_Witness ==
    /\ row.CrawlStatus = "Success"
    /\ row.WordCount = 3
    /\ Len(anchors) = 2
    /\ row.InternalLinks = 1
    /\ row.ExternalLinks = 0
    /\ row.LinkToWordRatio = 667

\* the sum of field f over the rows of a table
RECURSIVE SumOf(_, _)
SumOf(rows, f) ==
    IF rows = <<>> THEN 0 ELSE rows[1][f] + SumOf(Tail(rows), f)

Occurrences(k, keywords) ==
    Cardinality({ i \in 1..Len(keywords) : keywords[i] = k })

FirstIndex(k, keywords) ==
    CHOOSE i \in 1..Len(keywords) :
        keywords[i] = k /\ \A j \in 1..(i - 1) : keywords[j] # k

AnalyzeCalled == fn = "analyze_keyword_frequency"

\* C15 as stated: for every non-empty keyword list and every topN the
\* Percentage values of the returned table sum to at most 100 (10000
\* hundredths), and to exactly 100 only if topN is at least the number of
\* distinct keywords.
C15_SumAtMost100 ==
    (AnalyzeCalled /\ args.keywords # <<>>) =>
        /\ SumOf(result, "Percentage") <= 10000
        /\ SumOf(result, "Percentage") = 10000 =>
              args.top_n >= Cardinality(Range(args.keywords))

\* C15 amended: every Percentage is rounded to 2 decimals, so the sum of the
\* returned Percentage values differs from the exact share of the list that
\* the returned keywords make up, 100 * (sum of Frequency) / total, by at
\* most half a hundredth per row; it is at most 100 + 0.005 * rows, and that
\* exact share is 100 only if topN is at least the number of distinct
\* keywords.
C15_SumWithinRounding ==
    (AnalyzeCalled /\ args.keywords # <<>>) =>
        LET total == Len(args.keywords)
            sum == SumOf(result, "Percentage")
            share == 10000 * SumOf(result, "Frequency")
            rows == Len(result)
        IN  /\ 2 * (total * sum - share) <= rows * total
            /\ 2 * (share - total * sum) <= rows * total
            /\ 2 * sum <= 20000 + rows
            /\ share = 10000 * total =>
                  args.top_n >= Cardinality(Range(args.keywords))

\* a list of 6 keywords, one of them 4 times and two once, with topN >= 3:
\* 66.67 + 16.67 + 16.67 = 100.01
C15_Witness ==
    /\ AnalyzeCalled
    /\ Len(args.keywords) = 6
    /\ Len(result) = 3
    /\ SumOf(result, "Percentage") = 10001

\* C16: analyze_keyword_frequency returns min(topN, number of distinct
\* keywords) rows, one per distinct keyword, in non-increasing order of
\* frequency, equal frequencies in order of first occurrence in the input;
\* no keyword left out would come before a returned one; Frequency is the
\* keyword's number of occurrences and Percentage is count/total*100 rounded
\* to 2 decimals; [seo,seo,tool,tool,tool,guide] with topN 3 gives
\* tool 3 50.0, seo 2 33.33, guide 1 16.67.
C16_FrequencyTable ==
    AnalyzeCalled =>
        LET kws == args.keywords
            total == Len(kws)
            n == Len(result)
            Before(a, b) ==
                \/ Occurrences(a, kws) > Occurrences(b, kws)
                \/ /\ Occurrences(a, kws) = Occurrences(b, kws)
                   /\ FirstIndex(a, kws) < FirstIndex(b, kws)
        IN  /\ n = Min(args.top_n, Cardinality(Range(kws)))
            /\ \A i \in 1..n :
                  /\ result[i].Keyword \in Range(kws)
                  /\ result[i].Frequency = Occurrences(result[i].Keyword, kws)
                  /\ 2 * (total * result[i].Percentage - 10000 * result[i].Frequency)
                         <= total
                  /\ 2 * (10000 * result[i].Frequency - total * result[i].Percentage)
                         <= total
            /\ \A i, j \in 1..n :
                  i < j => Before(result[i].Keyword, result[j].Keyword)
            /\ \A k \in Range(kws) :
                  (\A i \in 1..n : result[i].Keyword # k) =>
                      \A i \in 1..n : Before(result[i].Keyword, k)
            /\ (kws = <<"seo", "seo", "tool", "tool", "tool", "guide">> /\ args.top_n = 3) =>
                  result = << [Keyword |-> "tool", Frequency |-> 3, Percentage |-> 5000],
                              [Keyword |-> "seo", Frequency |-> 2, Percentage |-> 3333],
                              [Keyword |-> "guide", Frequency |-> 1, Percentage |-> 1667] >>

\* two keywords tie for the first place and a third is cut off by topN: the
\* one that occurs first in the input is returned first
C16_Witness ==
    /\ AnalyzeCalled
    /\ args.keywords = <<"tool", "seo", "guide", "seo", "tool">>
    /\ args.top_n = 2
    /\ result = << [Keyword |-> "tool", Frequency |-> 2, Percentage |-> 4000],
                   [Keyword |-> "seo", Frequency |-> 2, Percentage |-> 4000] >>

ScoreCalled == fn = "calculate_keyword_opportunity_score"

\* C17: for every keyword, frequency, total_keywords and current_rankings
\* (frequency > total_keywords, total_keywords = 0 and very large
\* current_rankings included) the returned opportunity_score lies in
\* [0, 100], i.e. between 0 and 1000 tenths.
C17_ScoreInRange ==
    ScoreCalled =>
        /\ result.opportunity_score >= 0
        /\ result.opportunity_score <= 1000

\* frequency above an empty total, and a ranking penalty far beyond the
\* other two components
C17_Witness ==
    /\ ScoreCalled
    /\ args.total_keywords = 0
    /\ args.frequency > 0
    /\ args.current_rankings = 1000000
    /\ result.rank_penalty = 20000000
    /\ result.opportunity_score = 0

\* C18 as stated: the priority is High exactly when the returned
\* opportunity_score is >= 70, Medium exactly when it is >= 40 and < 70, and
\* Low otherwise.
C18_PriorityOfReturnedScore ==
    ScoreCalled =>
        /\ result.priority = "High" <=> result.opportunity_score >= 700
        /\ result.priority = "Medium" <=>
              (result.opportunity_score >= 400 /\ result.opportunity_score < 700)
        /\ result.priority = "Low" <=> result.opportunity_score < 400

\* C18 amended: the priority is High exactly when the clamped score before
\* its rounding to 1 decimal, min(100, f/total*200)*0.4 + min(100, 15*words)*0.4
\* - rankings*20*0.2 clamped to [0, 100], is >= 70, Medium exactly when it is
\* >= 40 and < 70, and Low otherwise; the returned opportunity_score is that
\* score rounded to 1 decimal, so it is >= 70 for High, between 40 and 70 for
\* Medium and <= 40 for Low.
C18_PriorityOfUnroundedScore ==
    ScoreCalled =>
        LET t == args.total_keywords
            f == args.frequency
            w == Len(args.keyword)
            r == args.current_rankings
            \* the unclamped score times t (times 1 when t = 0)
            den == IF t > 0 THEN t ELSE 1
            freq == IF t > 0 THEN (IF 80 * f < 40 * t THEN 80 * f ELSE 40 * t) ELSE 0
            len == IF 6 * w < 40 THEN 6 * w ELSE 40
            raw == freq + (len - 4 * r) * den
            score == IF raw < 0 THEN 0 ELSE IF raw > 100 * den THEN 100 * den ELSE raw
        IN  /\ result.priority \in {"High", "Medium", "Low"}
            /\ result.priority = "High" <=> score >= 70 * den
            /\ result.priority = "Medium" <=> (score >= 40 * den /\ score < 70 * den)
            /\ result.priority = "Low" <=> score < 40 * den
            /\ result.priority = "High" => result.opportunity_score >= 700
            /\ result.priority = "Medium" =>
                  (result.opportunity_score >= 400 /\ result.opportunity_score <= 700)
            /\ result.priority = "Low" => result.opportunity_score <= 400

\* a three-word keyword with frequency 14 of 51: the score 39.96 is returned
\* as 40.0 with priority Low
C18_Witness ==
    /\ ScoreCalled
    /\ Len(args.keyword) = 3
    /\ args.frequency = 14
    /\ args.total_keywords = 51
    /\ args.current_rankings = 0
    /\ result.opportunity_score = 400
    /\ result.priority = "Low"

ClusterCalled == fn = "cluster_related_keywords"

\* some returned cluster holds both keywords
SameCluster(a, b) ==
    \E i \in 1..Len(result) : a \in Range(result[i]) /\ b \in Range(result[i])

\* C19: for every keyword list, with or without duplicate strings, and every
\* threshold, each keyword string occurs in at most one returned cluster and
\* at most once within it, and every returned cluster has at least 2 members.
C19_ClustersDisjoint ==
    ClusterCalled =>
        /\ \A i \in 1..Len(result) :
              /\ Len(result[i]) >= 2
              /\ NoDuplicates(result[i])
              /\ Range(result[i]) \subseteq Range(args.keywords)
        /\ \A i, j \in 1..Len(result) :
              i # j => Range(result[i]) \cap Range(result[j]) = {}

\* a list with a repeated keyword gives two clusters
C19_Witness ==
    /\ ClusterCalled
    /\ ~NoDuplicates(args.keywords)
    /\ Len(result) = 2
    /\ \E i \in 1..Len(result) :
          \E k \in Range(result[i]) : Occurrences(k, args.keywords) = 2

\* C20 as stated: with the threshold 0.5, 'cat' and 'cats' have character-set
\* Jaccard similarity 3/4 and are placed in the same cluster, while 'cat' and
\* 'dog' have character-set Jaccard similarity 1/5 and are not placed in the
\* same cluster.
C20_CatDogOneFifth ==
    (ClusterCalled /\ args.similarity_threshold = <<1, 2>>) =>
        /\ Range(args.keywords) = {"cat", "cats"} =>
              /\ 4 * Cardinality(Chars("cat") \cap Chars("cats"))
                     = 3 * Cardinality(Chars("cat") \cup Chars("cats"))
              /\ SameCluster("cat", "cats")
        /\ Range(args.keywords) = {"cat", "dog"} =>
              /\ 5 * Cardinality(Chars("cat") \cap Chars("dog"))
                     = 1 * Cardinality(Chars("cat") \cup Chars("dog"))
              /\ ~SameCluster("cat", "dog")

\* C20 amended: with the threshold 0.5, 'cat' and 'cats' have character-set
\* Jaccard similarity 3/4 and a list of these two keywords gives one cluster
\* holding both, while 'cat' and 'dog' share no character, have similarity
\* 0 (0/6), and a list of these two keywords gives no cluster.
C20_CatDogZero ==
    (ClusterCalled /\ args.similarity_threshold = <<1, 2>>) =>
        /\ Range(args.keywords) = {"cat", "cats"} =>
              /\ 4 * Cardinality(Chars("cat") \cap Chars("cats"))
                     = 3 * Cardinality(Chars("cat") \cup Chars("cats"))
              /\ Len(result) = 1
              /\ SameCluster("cat", "cats")
        /\ Range(args.keywords) = {"cat", "dog"} =>
              /\ Cardinality(Chars("cat") \cap Chars("dog")) = 0
              /\ Cardinality(Chars("cat") \cup Chars("dog")) = 6
              /\ result = <<>>
              /\ ~SameCluster("cat", "dog")

\* [cats, cat] at threshold 0.5: the cluster is led by 'cat', the first in
\* sorted order
C20_Witness ==
    /\ ClusterCalled
    /\ args.similarity_threshold = <<1, 2>>
    /\ args.keywords = <<"cats", "cat">>
    /\ result = << <<"cat", "cats">> >>

\* ---------------------------------------------------------------------
\* C21: categorize_keyword_intent and guess_search_intent_for_term are
\* deterministic: two calls on the same string return the same category,
\* whatever the order in which each call iterates over the term sets.
\* ---------------------------------------------------------------------
CategorizeCalled == fn = "categorize_keyword_intent"
GuessCalled == fn = "guess_search_intent_for_term"

C21_IntentDeterministic ==
    (CategorizeCalled \/ GuessCalled) => result[1] = result[2]

\* "best price login" holds a term of each of the three sets and the two calls
\* met the sets in different orders
C21_Witness ==
    /\ CategorizeCalled
    /\ args.keyword = <<"b", "e", "s", "t", " ", "p", "r", "i", "c", "e", " ",
                        "l", "o", "g", "i", "n">>
    /\ args.first # args.second
    /\ result = <<"Informational", "Informational">>

\* ---------------------------------------------------------------------
\* C22: whatever the index labels of the input frame, analyze_organic_candidates
\* returns a frame with the same index in which the keywords, top_terms and
\* top_term_intent of each row come from the TF-IDF top terms of that row's
\* own document.
\* ---------------------------------------------------------------------
OrganicCalled == fn = "analyze_organic_candidates"

\* the top terms of the document at row p (1-based) of the input
OwnTerms(p) == Take(SortedByScore(args.X[p]), args.top_n_per_doc)

C22_RowsFromOwnDocument ==
    (OrganicCalled /\ ~result.raised) =>
        /\ Len(result.rows) = Len(args.X)
        /\ \A p \in 1..Len(args.X) :
              result.rows[p] =
                  OrganicRow(args.index[p], OwnTerms(p), args.top_n_per_doc,
                             args.order)

\* ---------------------------------------------------------------------
\* C23: pages are fetched in FIFO order of discovery: if A was appended to the
\* frontier before B and both are fetched, A is fetched before B.
\* ---------------------------------------------------------------------
\* the entries of to_visit in the order they entered it: the seed, then the
\* appends. A page that links to itself is appended again while it is being
\* processed; that second entry is popped and skipped, never fetched.
Discovery == <<normalize_url(seed_url)>> \o enqueued

\* the frontier is what is left of the arrival order, oldest entry first
FrontierIsTail ==
    \A k \in 1..Len(to_visit) :
        normalize_url(to_visit[k]) =
            Discovery[Len(Discovery) - Len(to_visit) + k]

C23_FifoOrder ==
    /\ FrontierIsTail
    /\ \A A, B \in Range(fetched) :
          FirstIndex(A, Discovery) < FirstIndex(B, Discovery)
              => FirstIndex(A, fetched) < FirstIndex(B, fetched)

\* one page put two URLs in the frontier and both were fetched after it
C23_Witness ==
    /\ Len(enqueued) >= 2
    /\ Len(fetched) = 3
    /\ fetched[2] = enqueued[1]
    /\ fetched[3] = enqueued[2]

\* ---------------------------------------------------------------------
\* C24: a progress callback, when supplied, is invoked exactly once per fetched
\* URL, after the robots check and before the GET, with the fraction
\* min(|visited| / max_pages, 1), which lies in [0, 1]; it is not invoked for
\* skipped or blocked URLs.
\* ---------------------------------------------------------------------
\* the GETs made so far, plus the one that the callback has just announced
Announced == Len(fetched) + (IF pc = "fetch" THEN 1 ELSE 0)

C24_ProgressPerFetch ==
    /\ ~has_cb => progress = <<>>
    /\ has_cb =>
          /\ Len(progress) = Announced
          /\ \A i \in 1..Len(progress) :
                \* i - 1 pages were visited when the i-th URL was announced
                /\ progress[i] = IF i - 1 < max_pages
                                 THEN <<i - 1, max_pages>> ELSE <<1, 1>>
                /\ progress[i][2] > 0
                /\ 0 <= progress[i][1]
                /\ progress[i][1] <= progress[i][2]

\* the callback announced a third URL after an entry of the frontier was skipped
C24_Witness ==
    /\ has_cb
    /\ pc = "fetch"
    /\ Len(fetched) = 2
    /\ progress = << <<0, 3>>, <<1, 3>>, <<2, 3>> >>
    /\ Len(Discovery) - Len(to_visit) > 3

\* ---------------------------------------------------------------------
\* C25: after every URL processed to a record (Success, HTTP Error or Error)
\* crawl_site sleeps before it pops the next URL, so between two consecutive
\* page GETs there is exactly one politeness sleep.
\* ---------------------------------------------------------------------
C25_OneSleepPerRecord ==
    /\ pc = "sleep" => sleeps = Len(fetched) - 1
    /\ pc # "sleep" => sleeps = Len(fetched)
    /\ pc = "sleep" => (row # NoRow /\ ENABLED Sleep)

\* a second GET is under way and one sleep lies between it and the first
C25_Witness ==
    /\ pc = "sleep"
    /\ Len(fetched) = 2
    /\ sleeps = 1
    /\ raised

\* ---------------------------------------------------------------------
\* C26: anchors whose href is a mailto: or tel: link are skipped by the link
\* extraction: they are counted neither in Internal Links nor in External
\* Links, do not enter the link-to-word ratio and are never appended to the
\* frontier.
\* ---------------------------------------------------------------------
IsMailOrTel(href) == href.scheme \in {"mailto", "tel"}

\* the anchors of the page without its mailto: and tel: links
WebAnchors == SelectSeq(anchors, LAMBDA href : ~IsMailOrTel(href))

C26_MailtoSkipped ==
    /\ (pc = "sleep" /\ row.CrawlStatus = "Success") =>
          LET internal == InternalLinks(WebAnchors, seed_domain)
              external == ExternalLinks(WebAnchors, seed_domain)
          IN  /\ row.InternalLinks = Cardinality(Range(internal))
              /\ row.ExternalLinks = Cardinality(Range(external))
              /\ row.LinkToWordRatio =
                     LinkToWord(Len(internal) + Len(external), row.WordCount)
    /\ \A i \in 1..Len(enqueued) : ~IsMailOrTel(enqueued[i])

\* ---------------------------------------------------------------------
\* C27: for every successfully parsed page, Word Count is the number of
\* whitespace-separated tokens of the visible text only: text inside script and
\* style elements (JSON-LD blocks included) contributes nothing.
\* ---------------------------------------------------------------------
InScriptOrStyle(str) == str.parent \in {"script", "style"}

Hit(terms, s) == \E i \in 1..Len(terms) : Contains(terms[i], s)

C28_IntentPriority ==
    /\ CategorizeCalled =>
          LET k == lower(args.keyword)
          IN  /\ result[1] =
                    IF Hit(informational_terms, k) THEN "Informational"
                    ELSE IF Hit(transactional_terms, k) THEN "Transactional"
                    ELSE IF Hit(navigational_terms, k) THEN "Navigational"
                    ELSE "Mixed"
              /\ result[1] = categorize_keyword_intent(k, args.first)
    /\ GuessCalled =>
          LET t == lower(args.term)
          IN  /\ result[1] =
                    IF Hit(transactional_keywords, t) THEN "transactional"
                    ELSE IF Hit(navigational_keywords, t) THEN "navigational"
                    ELSE IF Hit(info_triggers, t) \/ "?" \in Range(t)
                         THEN "informational"
                    ELSE "unknown"
              /\ result[1] = guess_search_intent_for_term(t, args.first)

\* "how to buy" holds an informational and a transactional term
C28_Witness ==
    /\ CategorizeCalled
    /\ args.keyword = <<"h", "o", "w", " ", "t", "o", " ", "b", "u", "y">>
    /\ result[1] = "Informational"
    /\ guess_search_intent_for_term(args.keyword, args.first) = "transactional"

\* ---------------------------------------------------------------------
\* C29: cluster_related_keywords does not depend on the order of its input:
\* every permutation of a keyword list gives the same leaders and the same set
\* of members for each leader (the order inside a member list may differ), and
\* each leader is the lexicographically smallest member of its cluster.
\* ---------------------------------------------------------------------
\* the clusters as leader and member set
AsSets(clusters) ==
    { [leader |-> Head(clusters[i]), members |-> Range(clusters[i])] :
          i \in 1..Len(clusters) }

\* the list with the keywords at i and i + 1 exchanged; these exchanges
\* generate every permutation
Swap(keywords, i) ==
    [j \in 1..Len(keywords) |->
        IF j = i THEN keywords[i + 1]
        ELSE IF j = i + 1 THEN keywords[i]
        ELSE keywords[j]]

C29_OrderInsensitive ==
    ClusterCalled =>
        /\ \A i \in 1..(Len(args.keywords) - 1) :
              AsSets(cluster_related_keywords(Swap(args.keywords, i),
                                              args.similarity_threshold))
                  = AsSets(result)
        /\ \A i \in 1..Len(result) :
              \A m \in Range(result[i]) : Rank(Head(result[i])) <= Rank(m)

\* an unsorted list whose member lists come out in another order than those of
\* the sorted list
C29_Witness ==
    /\ ClusterCalled
    /\ args.keywords # sorted(args.keywords)
    /\ result # <<>>
    /\ result # cluster_related_keywords(sorted(args.keywords),
                                         args.similarity_threshold)
    /\ AsSets(result) = AsSets(cluster_related_keywords(sorted(args.keywords),
                                                        args.similarity_threshold))

\* ---------------------------------------------------------------------
\* C30: with current_rankings = 0 the score of a keyword of w words is at most
\* 40 + 0.4 * min(100, 15 * w), hence at most 80, and at most 46 for a single
\* word; so in a report built from the tokens of extract_keywords_from_text,
\* which are single words, no keyword gets priority High. Scores in tenths.
\* ---------------------------------------------------------------------
ReportCalled == fn = "generate_keyword_research_report"

C30_SingleWordNeverHigh ==
    /\ (ScoreCalled /\ args.current_rankings = 0) =>
          LET w == Len(args.keyword)
          IN  /\ result.opportunity_score <= 400 + 4 * Min(100, 15 * w)
              /\ result.opportunity_score <= 800
              /\ w = 1 => /\ result.opportunity_score <= 460
                          /\ result.priority # "High"
    /\ ReportCalled =>
          /\ \A k \in Range(extract_keywords_from_text(args.text, 2)) :
                " " \notin Range(k)
          /\ \A i \in 1..Len(result.opportunity_analysis) :
                /\ result.opportunity_analysis[i].priority # "High"
                /\ result.opportunity_analysis[i].opportunity_score <= 460

\* "guide guide": the only keyword makes up the whole text, its score is the
\* largest a single word can have
C30_Witness ==
    /\ ReportCalled
    /\ args.text = <<"g", "u", "i", "d", "e", " ", "g", "u", "i", "d", "e">>
    /\ Len(result.opportunity_analysis) = 1
    /\ result.opportunity_analysis[1].opportunity_score = 460
    /\ result.opportunity_analysis[1].priority = "Medium"

====
